---- MODULE Spec2Model ----
(***************************************************************************)
(* Model of the interview-scoring tool: the evaluation store               *)
(* (load_results / upsert_eval / delete / save_results of                  *)
(* interview_check_app.py), the Streamlit script run that drives it, and   *)
(* the merge summary.                                                      *)
(*                                                                         *)
(* Conventions.                                                            *)
(*  - A cell of a DataFrame or of a sheet is a record [t, s, n]: t is the  *)
(*    Python type ("str", "num", "bool", "nan"), s the text of a str, n    *)
(*    the value of a number in hundredths (5 is 500, 3.67 is 367) or 0/1   *)
(*    of a bool.                                                           *)
(*  - A row is a function from column names to cells; a DataFrame is a     *)
(*    record [cols, rows] of two sequences.                                *)
(*  - The four recommendation values of the source are written "pass",     *)
(*    "hold", "fail", "undecided".                                         *)
(***************************************************************************)
EXTENDS Integers, Sequences, FiniteSets, TLC

VARIABLES
    tbl,        \* SpecOps: the DataFrame a sequence of upserts / deletes acts on
    prevTbl,    \* SpecOps: tbl before the last operation
    lastOp,     \* SpecOps: the last operation applied
    prevOp,     \* SpecOps: the operation before it
    interviewer,\* the sidebar's interviewer name; it fixes result_path
    roster,     \* the workbook at input_file
    outdir,     \* whether the output directory exists
    file,       \* the workbook at result_path (its Evaluations sheet)
    sess,       \* per browser session: the script run and st.session_state
    step,       \* the handler the last script run ended in, and whether the
                \* save button was pressed in that run
    uploads,    \* the workbooks in the merge section's file_uploader
    merge,      \* what the merge section shows for them
    disk,       \* SpecCli: the files of the directory merge_results.py runs in
    cli,        \* SpecCli: the last run of merge_results.py
    calc        \* the last application of a pure function to an input

opsVars == <<tbl, prevTbl, lastOp, prevOp>>
sessVars == <<interviewer, roster, outdir, file, sess, step>>
mergeVars == <<uploads, merge>>
toolVars == <<disk, cli, calc>>
vars ==
    << tbl, prevTbl, lastOp, prevOp, interviewer, roster, outdir, file, sess, step,
       uploads, merge, disk, cli, calc >>

----------------------------------------------------------------------------
(* Bounds of the model *)

MaxRows == 4        \* cap on the number of rows of an evaluation table
MaxSaved == 2       \* cap on the number of rows of the workbook a save adds to
MaxUploads == 3     \* cap on the number of uploaded workbooks

----------------------------------------------------------------------------
(* Cells *)

NaN == [t |-> "nan", s |-> "", n |-> 0]
Str(x) == [t |-> "str", s |-> x, n |-> 0]
Num(h) == [t |-> "num", s |-> "", n |-> h]
Bool(b) == [t |-> "bool", s |-> "", n |-> IF b THEN 1 ELSE 0]

\* pandas' elementwise ==: NaN equals nothing, a str equals only an equal str,
\* a number only an equal number.
PdEq(a, b) ==
    /\ a.t # "nan"
    /\ b.t # "nan"
    /\ a.t = b.t
    /\ a.s = b.s
    /\ a.n = b.n

\* Python's str(bool): "True" / "False".
PyStrBool(b) == IF b THEN "True" ELSE "False"

----------------------------------------------------------------------------
(* The fixed schema *)

APP_VERSION == "1.5.0"

EVAL_COLUMNS ==
    << "timestamp", "app_version", "interviewer",
       "candidate_id", "name", "student_id", "mark",
       "category", "level",
       "score_rules_fit", "score_output_evidence", "score_collaboration",
       "score_self_driven", "score_role_skill", "score_overall",
       "flag_evidence_risk", "flag_schedule_risk", "flag_attitude_risk",
       "flag_comm_risk", "flag_other_risk",
       "memo_strength", "memo_concern", "memo_followup", "memo_summary",
       "recommendation" >>

Range(f) == {f[i] : i \in DOMAIN f}

ColSet == Range(EVAL_COLUMNS)

empty_evals == [cols |-> EVAL_COLUMNS, rows |-> << >>]

----------------------------------------------------------------------------
(* Roster *)

\* The roster sheet: a name, a student id and a display mark per row; the
\* category and level columns are absent.  The second row has a blank name.
\* The columns of the roster workbook ("이름", "학번", "표시" in the source).
RosterFile == [cols |-> <<"name", "student_id", "mark">>]

\* A roster workbook without the name column.
RosterNoName == [cols |-> <<"student_id", "mark">>]

Rosters == {RosterFile, RosterNoName}

\* A mutant of load_candidates_raises: the column check is left out.
load_candidates_lenient(r) == FALSE

\* Lines 43-45: ValueError when the sheet has no name column.
load_candidates_raises(r) == "name" \notin Range(r.cols)

RosterSheet ==
    << [name |-> "Kim", sid |-> "2601", mark |-> ""],
       [name |-> "",    sid |-> "2502", mark |-> "!26"] >>

\* str.strip("_") of sid + "_" + name, for ids and names that neither start nor
\* end with "_".
candidate_id_of(sid, name) ==
    IF sid = "" /\ name = "" THEN ""
    ELSE IF sid = "" THEN name
    ELSE IF name = "" THEN sid
    ELSE sid \o "_" \o name

load_candidates ==
    [i \in DOMAIN RosterSheet |->
        [ name  |-> RosterSheet[i].name,
          sid   |-> RosterSheet[i].sid,
          mark  |-> RosterSheet[i].mark,
          cat   |-> "",
          lvl   |-> "",
          cid   |-> candidate_id_of(RosterSheet[i].sid, RosterSheet[i].name) ]]

candidates == load_candidates

----------------------------------------------------------------------------
(* Scores *)

RECURSIVE SumSeq(_)
SumSeq(q) == IF q = << >> THEN 0 ELSE Head(q) + SumSeq(Tail(q))

\* round(num / den) to the nearest integer, a tie to the even one.
RoundHalfEven(num, den) ==
    LET q == num \div den
        r == num % den
    IN  IF 2 * r < den THEN q
        ELSE IF 2 * r > den THEN q + 1
        ELSE IF q % 2 = 0 THEN q ELSE q + 1

\* A mutant of auto_avg: the zeros are averaged too.
auto_avg_all(nums) ==
    IF nums = << >> THEN 0 ELSE RoundHalfEven(100 * SumSeq(nums), Len(nums))

\* auto_avg over a sequence of integer scores, the result in hundredths.
auto_avg(nums) ==
    LET vals == SelectSeq(nums, LAMBDA x : x > 0)
    IN  IF vals = << >> THEN 0
        ELSE RoundHalfEven(100 * SumSeq(vals), Len(vals))

----------------------------------------------------------------------------
(* The form and the row a save builds from it *)

\* The widgets of the form: six sliders, five checkboxes, four text areas and
\* the recommendation.
FormA ==
    [ sr |-> 5, so |-> 5, sc |-> 5, ss |-> 5, sro |-> 5, som |-> 0,
      fe |-> FALSE, fs |-> FALSE, fa |-> FALSE, fc |-> FALSE, fo |-> FALSE,
      ms |-> "", mc |-> "", mf |-> "", msum |-> "", rec |-> "pass" ]

FormB ==
    [ sr |-> 3, so |-> 4, sc |-> 4, ss |-> 0, sro |-> 0, som |-> 0,
      fe |-> FALSE, fs |-> TRUE, fa |-> FALSE, fc |-> FALSE, fo |-> FALSE,
      ms |-> "", mc |-> "", mf |-> "", msum |-> "ok", rec |-> "hold" ]

Interviewers == {"Lee", "7"}

row_dict(iv, cand, f, ts) ==
    LET avg == auto_avg(<<f.sr, f.so, f.sc, f.ss, f.sro>>)
    IN
    [ c \in ColSet |->
        CASE c = "timestamp"             -> Str(ts)
          [] c = "app_version"           -> Str(APP_VERSION)
          [] c = "interviewer"           -> Str(iv)
          [] c = "candidate_id"          -> Str(cand.cid)
          [] c = "name"                  -> Str(cand.name)
          [] c = "student_id"            -> Str(cand.sid)
          [] c = "mark"                  -> Str(cand.mark)
          [] c = "category"              -> Str(cand.cat)
          [] c = "level"                 -> Str(cand.lvl)
          [] c = "score_rules_fit"       -> Num(100 * f.sr)
          [] c = "score_output_evidence" -> Num(100 * f.so)
          [] c = "score_collaboration"   -> Num(100 * f.sc)
          [] c = "score_self_driven"     -> Num(100 * f.ss)
          [] c = "score_role_skill"      -> Num(100 * f.sro)
          [] c = "score_overall"         -> IF f.som > 0 THEN Num(100 * f.som)
                                                         ELSE Num(avg)
          [] c = "flag_evidence_risk"    -> Str(PyStrBool(f.fe))
          [] c = "flag_schedule_risk"    -> Str(PyStrBool(f.fs))
          [] c = "flag_attitude_risk"    -> Str(PyStrBool(f.fa))
          [] c = "flag_comm_risk"        -> Str(PyStrBool(f.fc))
          [] c = "flag_other_risk"       -> Str(PyStrBool(f.fo))
          [] c = "memo_strength"         -> Str(f.ms)
          [] c = "memo_concern"          -> Str(f.mc)
          [] c = "memo_followup"         -> Str(f.mf)
          [] c = "memo_summary"          -> Str(f.msum)
          [] c = "recommendation"        -> Str(f.rec) ]

----------------------------------------------------------------------------
(* The evaluation store *)

\* (evals["interviewer"] == i) & (evals["candidate_id"] == c), per row.
key_mask(evals, i, c) ==
    [k \in 1..Len(evals.rows) |->
        /\ PdEq(evals.rows[k]["interviewer"], i)
        /\ PdEq(evals.rows[k]["candidate_id"], c)]

mask_any(mask) == \E k \in DOMAIN mask : mask[k]

\* evals.index[mask][0]
first_match(mask) ==
    CHOOSE k \in DOMAIN mask : mask[k] /\ \A j \in DOMAIN mask : mask[j] => k <= j

\* for k, v in row.items(): evals.at[idx, k] = v
set_row(old, row) ==
    [c \in DOMAIN old |-> IF c \in DOMAIN row THEN row[c] ELSE old[c]]

\* A mutant of upsert_eval: the row is always appended.
upsert_eval_append(evals, row) ==
    [cols |-> EVAL_COLUMNS, rows |-> Append(evals.rows, row)]

\* A mutant of upsert_eval: a match keeps the stored row.
upsert_eval_keep(evals, row) ==
    IF Len(evals.rows) = 0 THEN [cols |-> EVAL_COLUMNS, rows |-> <<row>>]
    ELSE IF mask_any(key_mask(evals, row["interviewer"], row["candidate_id"]))
         THEN evals
         ELSE [evals EXCEPT !.rows = Append(@, row)]

\* A mutant of upsert_eval: the last matching row is overwritten.
upsert_eval_last(evals, row) ==
    IF Len(evals.rows) = 0
    THEN [cols |-> EVAL_COLUMNS, rows |-> <<row>>]
    ELSE LET mask == key_mask(evals, row["interviewer"], row["candidate_id"])
             last == CHOOSE k \in DOMAIN mask : mask[k] /\ \A j \in DOMAIN mask : mask[j] => j <= k
         IN  IF mask_any(mask)
             THEN [evals EXCEPT !.rows[last] = set_row(@, row)]
             ELSE [evals EXCEPT !.rows = Append(@, row)]

upsert_eval(evals, row) ==
    IF Len(evals.rows) = 0
    THEN [cols |-> EVAL_COLUMNS, rows |-> <<row>>]
    ELSE LET mask == key_mask(evals, row["interviewer"], row["candidate_id"])
         IN  IF mask_any(mask)
             THEN [evals EXCEPT !.rows[first_match(mask)] = set_row(@, row)]
             ELSE [evals EXCEPT !.rows = Append(@, row)]

RECURSIVE keep_rows(_, _, _)
keep_rows(rows, mask, k) ==
    IF k > Len(rows) THEN << >>
    ELSE IF mask[k] THEN keep_rows(rows, mask, k + 1)
         ELSE <<rows[k]>> \o keep_rows(rows, mask, k + 1)

\* A mutant of delete_eval: only the first matching row is removed.
delete_eval_first(evals, i, c) ==
    LET mask == key_mask(evals, i, c)
    IN  IF ~mask_any(mask) THEN evals
        ELSE [evals EXCEPT !.rows =
                keep_rows(@, [k \in DOMAIN mask |-> k = first_match(mask)], 1)]

\* evals[~mask].reset_index(drop=True)
delete_eval(evals, i, c) ==
    [evals EXCEPT !.rows = keep_rows(@, key_mask(evals, i, c), 1)]

----------------------------------------------------------------------------
(* The workbook: to_excel and read_excel *)

\* A workbook at a path: absent, present without a readable Evaluations sheet,
\* or a sheet of columns and rows.
AbsentFile == [st |-> "absent", cols |-> << >>, rows |-> << >>]
UnreadableFile == [st |-> "unreadable", cols |-> << >>, rows |-> << >>]

\* pandas' default na_values, which read_excel applies to text cells.
NA_VALUES ==
    { "", "#N/A", "#N/A N/A", "#NA", "-1.#IND", "-1.#QNAN", "-NaN", "-nan",
      "1.#IND", "1.#QNAN", "<NA>", "N/A", "NA", "NULL", "NaN", "None", "n/a",
      "nan", "null" }

\* The texts of the model that Python parses as a number, with their value
\* in hundredths.
NumericText ==
    ("7" :> 700) @@ ("2601" :> 260100) @@ ("2502" :> 250200) @@ ("2603" :> 260300)

\* The texts read_excel takes for a bool.
BoolText ==
    ("True" :> TRUE) @@ ("TRUE" :> TRUE) @@ ("true" :> TRUE) @@
    ("False" :> FALSE) @@ ("FALSE" :> FALSE) @@ ("false" :> FALSE)

\* DataFrame.to_excel: a missing value is written as an empty cell (na_rep="").
to_excel_cell(c) == IF c.t = "nan" THEN Str("") ELSE c

to_excel(df) ==
    [ st |-> "sheet",
      cols |-> df.cols,
      rows |-> [k \in DOMAIN df.rows |->
                  [c \in DOMAIN df.rows[k] |-> to_excel_cell(df.rows[k][c])]] ]

\* An empty cell, and a text cell holding one of NA_VALUES, is read as NaN.
sanitize(c) == IF c.t = "str" /\ c.s \in NA_VALUES THEN NaN ELSE c

is_numeric(c) == c.t = "num" \/ (c.t = "str" /\ c.s \in DOMAIN NumericText)

is_boolean(c) == c.t = "bool" \/ (c.t = "str" /\ c.s \in DOMAIN BoolText)

\* The parser's type inference on one column: a column whose present values
\* all parse as numbers becomes numeric, one whose present values are all
\* bool texts becomes bool, any other column keeps its values.
infer_types(col) ==
    LET vals == [k \in DOMAIN col |-> sanitize(col[k])]
        present == {k \in DOMAIN col : vals[k].t # "nan"}
    IN  IF \A k \in present : is_numeric(vals[k])
        THEN [k \in DOMAIN col |->
                IF vals[k].t = "str" THEN Num(NumericText[vals[k].s]) ELSE vals[k]]
        ELSE IF \A k \in present : is_boolean(vals[k])
        THEN [k \in DOMAIN col |->
                IF vals[k].t = "str" THEN Bool(BoolText[vals[k].s]) ELSE vals[k]]
        ELSE vals

\* pd.read_excel(path, sheet_name="Evaluations") of a readable sheet.
read_excel(f) ==
    [ cols |-> f.cols,
      rows |-> [k \in DOMAIN f.rows |->
                  [c \in Range(f.cols) |->
                      infer_types([j \in DOMAIN f.rows |-> f.rows[j][c]])[k]]] ]

\* for c in EVAL_COLUMNS: if c not in df.columns: df[c] = "";
\* return df[EVAL_COLUMNS].copy()
fixed_schema(df) ==
    [ cols |-> EVAL_COLUMNS,
      rows |-> [k \in DOMAIN df.rows |->
                  [c \in ColSet |->
                      IF c \in Range(df.cols) THEN df.rows[k][c] ELSE Str("")]] ]

\* A mutant of load_results: a read failure is passed on to the caller.
load_results_raise(f) ==
    IF f.st = "absent" THEN [raised |-> FALSE, df |-> empty_evals]
    ELSE IF f.st = "unreadable" THEN [raised |-> TRUE, df |-> empty_evals]
    ELSE [raised |-> FALSE, df |-> fixed_schema(read_excel(f))]

\* A mutant of load_results: the sheet is returned as read.
load_results_asread(f) ==
    IF f.st = "sheet" THEN [raised |-> FALSE, df |-> read_excel(f)]
    ELSE [raised |-> FALSE, df |-> empty_evals]

\* load_results; raised says whether an exception leaves the function.
load_results(f) ==
    IF f.st = "absent" THEN [raised |-> FALSE, df |-> empty_evals]
    ELSE IF f.st = "unreadable" THEN [raised |-> FALSE, df |-> empty_evals]
    ELSE [raised |-> FALSE, df |-> fixed_schema(read_excel(f))]

\* save_results: the Evaluations sheet is written in full (the snapshot and
\* Meta sheets are not modelled).
save_results(evals) == to_excel(evals)

----------------------------------------------------------------------------
(* The browser session: st.session_state and the script run *)

Sessions == {"s1", "s2"}

\* The form as first rendered with no stored evaluation, and as the clear
\* button leaves it.
DefaultForm ==
    [ sr |-> 0, so |-> 0, sc |-> 0, ss |-> 0, sro |-> 0, som |-> 0,
      fe |-> FALSE, fs |-> FALSE, fa |-> FALSE, fc |-> FALSE, fo |-> FALSE,
      ms |-> "", mc |-> "", mf |-> "", msum |-> "", rec |-> "undecided" ]

\* The widget keys of the form are not in st.session_state.
NoForm == [set |-> FALSE, w |-> DefaultForm]

RecOptions == {"pass", "hold", "fail", "undecided"}

SearchTexts == {"", "Kim", "zzz"}

NoEv == [kind |-> "none", k |-> 1, f |-> DefaultForm, search |-> "", ts |-> "", tm |-> "off"]

InitSess ==
    [ pc      |-> "idle",       \* idle; in a run: loaded (past line 299), aborted
      ev      |-> NoEv,         \* the interaction that started the run
      evals   |-> empty_evals,  \* the DataFrame of the latest run
      sel     |-> 1,            \* the candidate of the selectbox
      search  |-> "",           \* the search box
      form    |-> NoForm,       \* the form widgets of the selected candidate
      running |-> [k \in DOMAIN candidates |-> FALSE],   \* timer_running_<cid>
      confirm |-> [k \in DOMAIN candidates |-> FALSE] ]  \* confirm_delete_<cid>

NoStep == [kind |-> "none", s |-> "s1", save_pressed |-> FALSE]

SessIdle ==
    /\ interviewer = ""
    /\ roster = RosterFile
    /\ outdir = FALSE
    /\ file = AbsentFile
    /\ sess = [s \in Sessions |-> InitSess]
    /\ step = NoStep

----------------------------------------------------------------------------
(* SpecOps: upsert_eval and delete applied in sequence to an empty table *)

NoOp == [kind |-> "none", interviewer |-> "", cid |-> "", v |-> 0]

\* What one upsert of the sequence may carry: a form and the time of the save.
OpsVariants == << [f |-> FormA, ts |-> "t1"], [f |-> FormB, ts |-> "t2"] >>

\* The row of the upsert that lastOp records.
op_row(op) ==
    LET k == CHOOSE k \in DOMAIN candidates : candidates[k].cid = op.cid
    IN  row_dict(op.interviewer, candidates[k], OpsVariants[op.v].f, OpsVariants[op.v].ts)

UpsertOps ==
    { [kind |-> "upsert", interviewer |-> i, cid |-> candidates[k].cid, v |-> v] :
        i \in Interviewers, k \in DOMAIN candidates, v \in DOMAIN OpsVariants }

DeleteOps ==
    { [kind |-> "delete", interviewer |-> i, cid |-> candidates[k].cid, v |-> 0] :
        i \in Interviewers, k \in DOMAIN candidates }

\* The values of the variables a specification leaves alone.
OpsIdle ==
    /\ tbl = empty_evals
    /\ prevTbl = empty_evals
    /\ lastOp = NoOp
    /\ prevOp = NoOp

\* Nothing uploaded: the merge section shows the uploader alone.
NoMerge ==
    [ status |-> "none", failed |-> << >>, merged_df |-> empty_evals,
      summary |-> << >>, detail |-> 0, header |-> 0,
      cards |-> << >>, export |-> FALSE ]

MergeIdle ==
    /\ uploads = << >>
    /\ merge = NoMerge

\* The paths of the directory merge_results.py runs in, in the order of
\* sorted(); the last one is the path given as --out.
CliPaths == <<"a.xlsx", "b.xlsx", "merged.xlsx">>

OutPath == "merged.xlsx"

EmptyDisk == [p \in Range(CliPaths) |-> AbsentFile]

\* merge_results.py has not run.
NoCli ==
    [ ran |-> FALSE, inputs |-> << >>, paths |-> << >>, read |-> << >>,
      skipped |-> << >>, exit |-> 0, writes |-> FALSE,
      out_df |-> [cols |-> {}, rows |-> << >>], meta |-> << >>,
      printed_files |-> 0, printed_rows |-> 0 ]

CliIdle ==
    /\ disk = EmptyDisk
    /\ cli = NoCli

\* No function has been applied.
NoCalc == [fn |-> "none", arg |-> << >>, out |-> << >>]

CalcIdle == calc = NoCalc

ToolsIdle ==
    /\ CliIdle
    /\ CalcIdle

OpsInit ==
    /\ OpsIdle
    /\ SessIdle
    /\ MergeIdle
    /\ ToolsIdle

OpsUpsert ==
    \E op \in UpsertOps :
        /\ Len(tbl.rows) < MaxRows
        /\ tbl' = upsert_eval(tbl, op_row(op))
        /\ prevTbl' = tbl
        /\ prevOp' = lastOp
        /\ lastOp' = op
        /\ UNCHANGED <<sessVars, mergeVars, toolVars>>

OpsDelete ==
    \E op \in DeleteOps :
        /\ tbl' = delete_eval(tbl, Str(op.interviewer), Str(op.cid))
        /\ prevTbl' = tbl
        /\ prevOp' = lastOp
        /\ lastOp' = op
        /\ UNCHANGED <<sessVars, mergeVars, toolVars>>

OpsNext == OpsUpsert \/ OpsDelete

SpecOps == OpsInit /\ [][OpsNext]_vars

\* Tables the operations may be handed, beyond those built from the empty one:
\* one holds two rows of the same key.
SeedTables ==
    LET r1 == row_dict("Lee", candidates[1], FormA, "t1")
        r2 == row_dict("7", candidates[2], FormA, "t1")
        r3 == row_dict("Lee", candidates[1], FormB, "t2")
    IN  { empty_evals,
          [cols |-> EVAL_COLUMNS, rows |-> <<r1, r2, r3>>],
          [cols |-> EVAL_COLUMNS, rows |-> <<r2, r1>>] }

TablesInit ==
    /\ tbl \in SeedTables
    /\ prevTbl = tbl
    /\ lastOp = NoOp
    /\ prevOp = NoOp
    /\ SessIdle
    /\ MergeIdle
    /\ ToolsIdle

SpecTables == TablesInit /\ [][OpsNext]_vars

----------------------------------------------------------------------------
(* Spec: the script run of one session; SpecShared: two sessions, one path *)

\* A workbook left at result_path by an earlier version: fewer columns, one
\* more, another order.
LegacyFile ==
    [ st |-> "sheet",
      cols |-> <<"candidate_id", "interviewer", "extra", "score_overall", "memo_summary">>,
      rows |-> << [c \in {"candidate_id", "interviewer", "extra", "score_overall", "memo_summary"} |->
                     CASE c = "candidate_id"  -> Str("2601_Kim")
                       [] c = "interviewer"   -> Str("Lee")
                       [] c = "extra"         -> Str("x")
                       [] c = "score_overall" -> Num(400)
                       [] c = "memo_summary"  -> Str("old")] >> ]

InitialFiles == {AbsentFile, UnreadableFile, LegacyFile}

\* str.contains of the search text, among the texts of the model.
Contains(text, part) == part = "" \/ text = part

\* view_df: the candidates the search keeps.
view_df(search) ==
    {k \in DOMAIN candidates :
        Contains(candidates[k].name, search) \/ Contains(candidates[k].sid, search)}

\* pre_i: the slider value taken from a stored cell.
pre_i(v) ==
    CASE v.t = "nan"  -> 0
      [] v.t = "num"  -> v.n \div 100
      [] v.t = "bool" -> v.n
      [] v.t = "str"  -> IF v.s \in DOMAIN NumericText THEN NumericText[v.s] \div 100 ELSE 0

\* str() of a number, among the texts of the model.
PyStrNum(h) ==
    IF \E t \in DOMAIN NumericText : NumericText[t] = h
    THEN CHOOSE t \in DOMAIN NumericText : NumericText[t] = h
    ELSE ToString(h)

\* pre_s: the text taken from a stored cell.
pre_s(v) ==
    CASE v.t = "nan"  -> ""
      [] v.t = "str"  -> v.s
      [] v.t = "bool" -> PyStrBool(v.n = 1)
      [] v.t = "num"  -> PyStrNum(v.n)

\* pre_b: str(v) == "True"
pre_b(v) == pre_s(v) = "True"

\* evals[mask].iloc[-1]
last_match(mask) ==
    CHOOSE k \in DOMAIN mask : mask[k] /\ \A j \in DOMAIN mask : mask[j] => j <= k

\* The form as rendered when its widget keys are not in st.session_state.
prefill(evals, i, c) ==
    LET mask == key_mask(evals, Str(i), Str(c))
    IN  IF ~mask_any(mask) THEN DefaultForm
        ELSE LET existing == evals.rows[last_match(mask)]
                 rec_val == pre_s(existing["recommendation"])
             IN  [ sr   |-> pre_i(existing["score_rules_fit"]),
                   so   |-> pre_i(existing["score_output_evidence"]),
                   sc   |-> pre_i(existing["score_collaboration"]),
                   ss   |-> pre_i(existing["score_self_driven"]),
                   sro  |-> pre_i(existing["score_role_skill"]),
                   som  |-> pre_i(existing["score_overall"]),
                   fe   |-> pre_b(existing["flag_evidence_risk"]),
                   fs   |-> pre_b(existing["flag_schedule_risk"]),
                   fa   |-> pre_b(existing["flag_attitude_risk"]),
                   fc   |-> pre_b(existing["flag_comm_risk"]),
                   fo   |-> pre_b(existing["flag_other_risk"]),
                   ms   |-> pre_s(existing["memo_strength"]),
                   mc   |-> pre_s(existing["memo_concern"]),
                   mf   |-> pre_s(existing["memo_followup"]),
                   msum |-> pre_s(existing["memo_summary"]),
                   rec  |-> IF rec_val \in RecOptions THEN rec_val ELSE "undecided" ]

\* The interactions of a user with the page.  The search box and the timer
\* settings of the sidebar are given with each of them.
Ev(kind, k, f) ==
    [kind |-> kind, k |-> k, f |-> f, search |-> "", ts |-> "", tm |-> "off"]

\* The values a form edit of the session model leaves in the widgets.
EditForms == {FormB}

Events ==
    { Ev(kind, 1, DefaultForm) :
        kind \in { "clear", "timer_start", "timer_pause", "timer_reset",
                   "save", "delete_request", "delete_confirm", "delete_cancel",
                   "download", "search", "merge_upload" } }
    \cup { Ev("select", k, DefaultForm) : k \in DOMAIN candidates }
    \cup { Ev("edit", 1, f) : f \in EditForms }

\* The interactions SpecShared follows besides the save: both sessions select
\* a candidate, the first also edits the form (the second saves the form as
\* it is prefilled).
SharedEvents(s) ==
    {e \in Events : e.kind = "select" \/ (e.kind = "edit" /\ s = "s1")}

SaveEvents == {e \in Events : e.kind = "save"}

\* The timer of a run: off (enable_timer unset), static (shown, and no live
\* refresh or no time left), live (live refresh set and time left).
TimerModes == {"off", "static", "live"}

\* A timer button can be pressed only where the timer is shown; without a
\* timer button, a shown timer matters only where it reruns the script.
TimerModesOf(ev) ==
    IF ev.kind \in {"timer_start", "timer_pause", "timer_reset"}
    THEN {"static", "live"}
    ELSE {"off", "live"}

SearchTextsOf(ev) == IF ev.kind = "search" THEN SearchTexts ELSE {""}

\* now_string() of a save.
SaveTime == "t1"

\* The widget values the browser sends with the interaction; a selectbox
\* whose candidate the search drops falls back to a candidate of the view.
with_input(x, ev) ==
    LET y == CASE ev.kind = "select" ->
                    [x EXCEPT !.sel = ev.k,
                              !.form = IF ev.k = x.sel THEN x.form ELSE NoForm]
               [] ev.kind = "edit" -> [x EXCEPT !.form = [set |-> TRUE, w |-> ev.f]]
               [] OTHER -> x
    IN  IF y.sel \in view_df(ev.search) \/ view_df(ev.search) = {}
        THEN [y EXCEPT !.search = ev.search]
        ELSE [y EXCEPT !.search = ev.search,
                       !.sel = CHOOSE k \in view_df(ev.search) : TRUE,
                       !.form = NoForm]

\* The end of a script run: evals stays as the table the page shows (the
\* data of its download button, lines 586-596); the search box keeps no state
\* of its own in the model.  A run that st.rerun() ends is a run of its own;
\* the run st.rerun() starts is the next one.
Finished(x) ==
    [x EXCEPT !.pc = "idle", !.ev = NoEv, !.search = ""]

\* Lines 269-299: the sidebar, the stop without an interviewer name, the
\* roster, load_results (got is what it returned).  pc is "loaded" past line 299 and "aborted" when the
\* run ends before.
entered(x, ev, iv, got) ==
    LET y == with_input(x, ev)
    IN  IF iv = "" \/ load_candidates_raises(roster) \/ got.raised
        THEN [y EXCEPT !.pc = "aborted", !.ev = ev, !.evals = empty_evals]
        ELSE [y EXCEPT !.pc = "loaded", !.ev = ev, !.evals = got.df]

\* Lines 319-321: no candidate passes the search.
stops(x) == view_df(x.search) = {}

\* Lines 374-394: the timer keys and the three timer buttons.
timer_block(x) ==
    IF x.ev.tm = "off" THEN x.running
    ELSE CASE x.ev.kind = "timer_start" -> [x.running EXCEPT ![x.sel] = TRUE]
           [] x.ev.kind = "timer_pause" -> [x.running EXCEPT ![x.sel] = FALSE]
           [] x.ev.kind = "timer_reset" -> [x.running EXCEPT ![x.sel] = FALSE]
           [] OTHER -> x.running

\* Lines 408-410: live refresh sleeps and reruns the script.
timer_reruns(x) == x.ev.tm = "live" /\ timer_block(x)[x.sel]

\* Lines 415, 599: the rows of the selected key.
sel_mask(x) == key_mask(x.evals, Str(interviewer), Str(candidates[x.sel].cid))

\* Lines 484-543: the form widgets, prefilled when their keys are not set.
rendered(x) ==
    IF x.form.set THEN x.form
    ELSE [set |-> TRUE, w |-> prefill(x.evals, interviewer, candidates[x.sel].cid)]

\* The run reaches the form: it neither stops nor reruns before it.
reaches_form(x) == x.pc = "loaded" /\ ~stops(x) /\ ~timer_reruns(x)

\* Lines 287-295: st.stop() without an interviewer name or with a roster that
\* fails to load; both come before ensure_output_dir at line 297.
stopped_early == interviewer = "" \/ load_candidates_raises(roster)

\* The run ends before load_results returns: st.stop() drops the widgets that
\* were not drawn, an exception keeps them.
RunAbort(s, x) ==
    /\ x.pc = "aborted"
    /\ sess' = [sess EXCEPT ![s] =
                  Finished(IF stopped_early THEN [x EXCEPT !.form = NoForm] ELSE x)]
    /\ step' = [kind |-> "abort", s |-> s, save_pressed |-> x.ev.kind = "save"]
    /\ outdir' = IF stopped_early THEN outdir ELSE TRUE
    /\ UNCHANGED <<interviewer, roster, file>>
    /\ UNCHANGED <<opsVars, mergeVars, toolVars>>

RunStop(s, x) ==
    /\ x.pc = "loaded"
    /\ stops(x)
    /\ sess' = [sess EXCEPT ![s] = Finished([x EXCEPT !.form = NoForm])]
    /\ step' = [kind |-> "stop", s |-> s, save_pressed |-> x.ev.kind = "save"]
    /\ outdir' = TRUE
    /\ UNCHANGED <<interviewer, roster, file>>
    /\ UNCHANGED <<opsVars, mergeVars, toolVars>>

RunTimerRerun(s, x) ==
    /\ x.pc = "loaded"
    /\ ~stops(x)
    /\ timer_reruns(x)
    /\ sess' = [sess EXCEPT ![s] = Finished([x EXCEPT !.running = timer_block(x)])]
    /\ step' = [kind |-> "timer_rerun", s |-> s, save_pressed |-> x.ev.kind = "save"]
    /\ outdir' = TRUE
    /\ UNCHANGED <<interviewer, roster, file>>
    /\ UNCHANGED <<opsVars, mergeVars, toolVars>>

\* Lines 468-482: the clear button.
RunClear(s, x) ==
    /\ reaches_form(x)
    /\ x.ev.kind = "clear"
    /\ sess' = [sess EXCEPT ![s] =
                  Finished([x EXCEPT !.running = timer_block(x),
                                     !.form = [set |-> TRUE, w |-> DefaultForm]])]
    /\ step' = [kind |-> "clear", s |-> s, save_pressed |-> x.ev.kind = "save"]
    /\ outdir' = TRUE
    /\ UNCHANGED <<interviewer, roster, file>>
    /\ UNCHANGED <<opsVars, mergeVars, toolVars>>

\* A mutant of RunSave: the row is merged into the workbook as it is at the
\* write, not into the table the run loaded.
RunSave_reload(s, x) ==
    LET f == rendered(x)
        row == row_dict(interviewer, candidates[x.sel], f.w, SaveTime)
        now == upsert_eval(load_results(file).df, row)
    IN  /\ reaches_form(x)
        /\ x.ev.kind = "save"
        /\ file' = save_results(now)
        /\ sess' = [sess EXCEPT ![s] =
                      Finished([x EXCEPT !.running = timer_block(x), !.form = f,
                                         !.evals = now])]
        /\ step' = [kind |-> "save", s |-> s, save_pressed |-> x.ev.kind = "save"]
        /\ outdir' = TRUE
        /\ UNCHANGED <<interviewer, roster>>
        /\ UNCHANGED <<opsVars, mergeVars, toolVars>>

\* Lines 549-584: the save button.
RunSave(s, x) ==
    LET f == rendered(x)
        row == row_dict(interviewer, candidates[x.sel], f.w, SaveTime)
    IN  /\ reaches_form(x)
        /\ x.ev.kind = "save"
        /\ file' = save_results(upsert_eval(x.evals, row))
        /\ sess' = [sess EXCEPT ![s] =
                      Finished([x EXCEPT !.running = timer_block(x), !.form = f,
                                         !.evals = upsert_eval(x.evals, row)])]
        /\ step' = [kind |-> "save", s |-> s, save_pressed |-> x.ev.kind = "save"]
        /\ outdir' = TRUE
        /\ UNCHANGED <<interviewer, roster>>
        /\ UNCHANGED <<opsVars, mergeVars, toolVars>>

\* Lines 599-601: the delete button, shown when the key has a stored row.
RunDeleteRequest(s, x) ==
    /\ reaches_form(x)
    /\ x.ev.kind = "delete_request"
    /\ mask_any(sel_mask(x))
    /\ sess' = [sess EXCEPT ![s] =
                  Finished([x EXCEPT !.running = timer_block(x),
                                     !.form = rendered(x),
                                     !.confirm[x.sel] = TRUE])]
    /\ step' = [kind |-> "delete_request", s |-> s, save_pressed |-> x.ev.kind = "save"]
    /\ outdir' = TRUE
    /\ UNCHANGED <<interviewer, roster, file>>
    /\ UNCHANGED <<opsVars, mergeVars, toolVars>>

\* Lines 603-622: the confirm button of a pending delete.
RunDeleteConfirm(s, x) ==
    /\ reaches_form(x)
    /\ x.ev.kind = "delete_confirm"
    /\ mask_any(sel_mask(x))
    /\ x.confirm[x.sel]
    /\ file' = save_results(delete_eval(x.evals, Str(interviewer),
                                        Str(candidates[x.sel].cid)))
    /\ sess' = [sess EXCEPT ![s] =
                  Finished([x EXCEPT !.running = timer_block(x),
                                     !.form = NoForm,
                                     !.confirm[x.sel] = FALSE,
                                     !.evals = delete_eval(x.evals, Str(interviewer),
                                                           Str(candidates[x.sel].cid))])]
    /\ step' = [kind |-> "delete_confirm", s |-> s, save_pressed |-> x.ev.kind = "save"]
    /\ outdir' = TRUE
    /\ UNCHANGED <<interviewer, roster>>
    /\ UNCHANGED <<opsVars, mergeVars, toolVars>>

\* Lines 623-626: the cancel button of a pending delete.
RunDeleteCancel(s, x) ==
    /\ reaches_form(x)
    /\ x.ev.kind = "delete_cancel"
    /\ mask_any(sel_mask(x))
    /\ x.confirm[x.sel]
    /\ sess' = [sess EXCEPT ![s] =
                  Finished([x EXCEPT !.running = timer_block(x),
                                     !.form = rendered(x),
                                     !.confirm[x.sel] = FALSE])]
    /\ step' = [kind |-> "delete_cancel", s |-> s, save_pressed |-> x.ev.kind = "save"]
    /\ outdir' = TRUE
    /\ UNCHANGED <<interviewer, roster, file>>
    /\ UNCHANGED <<opsVars, mergeVars, toolVars>>

\* The button of the interaction is one the run acts on.
acts(x) ==
    \/ x.ev.kind \in {"clear", "save"}
    \/ x.ev.kind = "delete_request" /\ mask_any(sel_mask(x))
    \/ x.ev.kind \in {"delete_confirm", "delete_cancel"}
          /\ mask_any(sel_mask(x)) /\ x.confirm[x.sel]

\* A mutant of RunRender: drawing the page writes the loaded table back.
RunRender_writes(s, x) ==
    /\ reaches_form(x)
    /\ ~acts(x)
    /\ file' = save_results(x.evals)
    /\ sess' = [sess EXCEPT ![s] =
                  Finished([x EXCEPT !.running = timer_block(x),
                                     !.form = rendered(x)])]
    /\ step' = [kind |-> "render", s |-> s, save_pressed |-> x.ev.kind = "save"]
    /\ outdir' = TRUE
    /\ UNCHANGED <<interviewer, roster>>
    /\ UNCHANGED <<opsVars, mergeVars, toolVars>>

\* A run to the end of the script with no handler to run: the page is drawn
\* (a selection, a search, a form edit, a timer button, a download, an upload
\* to the merge section, a button that is not shown).
RunRender(s, x) ==
    /\ reaches_form(x)
    /\ ~acts(x)
    /\ sess' = [sess EXCEPT ![s] =
                  Finished([x EXCEPT !.running = timer_block(x),
                                     !.form = rendered(x)])]
    /\ step' = [kind |-> "render", s |-> s, save_pressed |-> x.ev.kind = "save"]
    /\ outdir' = TRUE
    /\ UNCHANGED <<interviewer, roster, file>>
    /\ UNCHANGED <<opsVars, mergeVars, toolVars>>

\* One script run from its first line to where it ends.
Run(s, x) ==
    \/ RunAbort(s, x)
    \/ RunStop(s, x)
    \/ RunTimerRerun(s, x)
    \/ RunClear(s, x)
    \/ RunSave(s, x)
    \/ RunDeleteRequest(s, x)
    \/ RunDeleteConfirm(s, x)
    \/ RunDeleteCancel(s, x)
    \/ RunRender(s, x)

\* A save is followed only while the table is below the cap of the model.
below_cap(ev) == (ev.kind = "save" /\ file.st = "sheet") => Len(file.rows) < MaxSaved

\* An interaction and the script run it starts, in one session.
Interact(s, evs) ==
    /\ sess[s].pc = "idle"
    /\ \E got \in {load_results(file)}, ev \in evs :
        \E tm \in TimerModesOf(ev), t \in SearchTextsOf(ev) :
            /\ below_cap(ev)
            /\ \E x \in {entered(sess[s], [ev EXCEPT !.tm = tm, !.search = t],
                                 interviewer, got)} : Run(s, x)

Init ==
    /\ OpsIdle
    /\ MergeIdle
    /\ ToolsIdle
    /\ interviewer \in Interviewers \cup {""}
    /\ roster \in Rosters
    /\ outdir \in BOOLEAN
    /\ file \in (IF outdir THEN InitialFiles ELSE {AbsentFile})
    /\ sess = [s \in Sessions |-> InitSess]
    /\ step = NoStep

Next == Interact("s1", Events)

Spec == Init /\ [][Next]_vars

\* A workbook at result_path that holds two rows of one key.
DuplicateFile ==
    save_results([cols |-> EVAL_COLUMNS,
                  rows |-> << row_dict("Lee", candidates[1], FormA, "t0"),
                              row_dict("Lee", candidates[1], FormB, "t0") >>])

\* A save is followed only while the table it writes is within the cap.
within_cap(x) ==
    x.ev.kind = "save" =>
        Len(upsert_eval(x.evals, row_dict(interviewer, candidates[x.sel],
                                          rendered(x).w, SaveTime)).rows) <= MaxSaved

DupInit ==
    /\ OpsIdle
    /\ MergeIdle
    /\ ToolsIdle
    /\ interviewer = "Lee"
    /\ roster = RosterFile
    /\ outdir = TRUE
    /\ file = DuplicateFile
    /\ sess = [s \in Sessions |-> InitSess]
    /\ step = NoStep

\* An interaction and the script run it starts, on that workbook.
DupNext ==
    /\ sess["s1"].pc = "idle"
    /\ \E got \in {load_results(file)}, ev \in Events :
        \E tm \in TimerModesOf(ev), t \in SearchTextsOf(ev) :
            \E x \in {entered(sess["s1"], [ev EXCEPT !.tm = tm, !.search = t],
                              interviewer, got)} : within_cap(x) /\ Run("s1", x)

SpecDup == DupInit /\ [][DupNext]_vars

\* With two sessions on one path the run of a save in one is not atomic for
\* the other: it is split where load_results has returned.
Begin(s) ==
    /\ sess[s].pc = "idle"
    /\ \E ev \in SaveEvents :
        /\ below_cap(ev)
        /\ sess' = [sess EXCEPT ![s] =
                      entered(sess[s], ev, interviewer, load_results(file))]
    /\ outdir' = TRUE
    /\ UNCHANGED <<interviewer, roster, file, step>>
    /\ UNCHANGED <<opsVars, mergeVars, toolVars>>

\* The rest of the run of a save that has loaded the table.
Continue(s) ==
    /\ sess[s].pc = "loaded"
    /\ RunSave(s, sess[s])

SharedInit ==
    /\ OpsIdle
    /\ MergeIdle
    /\ ToolsIdle
    /\ interviewer = "Lee"
    /\ roster = RosterFile
    /\ outdir = FALSE
    /\ file = AbsentFile
    /\ sess = [s \in Sessions |-> InitSess]
    /\ step = NoStep

SharedNext == \E s \in Sessions : Interact(s, SharedEvents(s)) \/ Begin(s) \/ Continue(s)

SpecShared == SharedInit /\ [][SharedNext]_vars

----------------------------------------------------------------------------
(* SpecMerge: the merge section of the page *)

SCORE_COLS ==
    << "score_rules_fit", "score_output_evidence", "score_collaboration",
       "score_self_driven", "score_role_skill", "score_overall" >>

FLAG_COLS ==
    << "flag_evidence_risk", "flag_schedule_risk", "flag_attitude_risk",
       "flag_comm_risk", "flag_other_risk" >>

FormC ==
    [ sr |-> 3, so |-> 3, sc |-> 3, ss |-> 3, sro |-> 3, som |-> 0,
      fe |-> FALSE, fs |-> TRUE, fa |-> FALSE, fc |-> FALSE, fo |-> FALSE,
      ms |-> "", mc |-> "", mf |-> "", msum |-> "", rec |-> "fail" ]

\* The candidate of a roster row with neither a student id nor a name:
\* astype(str) makes the id "nan", and "_" is stripped from "nan_".
BlankCandidate ==
    [ name |-> "", sid |-> "nan", mark |-> "", cat |-> "", lvl |-> "",
      cid |-> candidate_id_of("nan", "") ]

\* The result workbook an interviewer's saves leave.
workbook(rows) == save_results([cols |-> EVAL_COLUMNS, rows |-> rows])

WbLee ==
    workbook(<< row_dict("Lee", candidates[1], FormA, "t1"),
                row_dict("Lee", candidates[2], FormB, "t1") >>)

WbPark == workbook(<< row_dict("Park", candidates[1], FormC, "t2") >>)

WbChoi == workbook(<< row_dict("Choi", candidates[2], FormA, "t2") >>)

WbSeven == workbook(<< row_dict("7", candidates[1], FormB, "t1") >>)

WbBlank ==
    workbook(<< row_dict("Park", candidates[1], FormB, "t1"),
                row_dict("Park", BlankCandidate, FormA, "t2") >>)

\* Another candidate of the name of the first one, with another student id.
Namesake ==
    [ name |-> candidates[1].name, sid |-> "2603", mark |-> "", cat |-> "", lvl |-> "",
      cid |-> candidate_id_of("2603", candidates[1].name) ]

WbTwins ==
    workbook(<< row_dict("Park", candidates[1], FormA, "t1"),
                row_dict("Park", Namesake, FormC, "t2") >>)

\* The workbooks a user may upload.
UploadFiles ==
    {WbLee, WbPark, WbChoi, WbSeven, WbBlank, WbTwins, LegacyFile, UnreadableFile}

\* Lines 646-651: the uploads whose Evaluations sheet is read.
readable(ups) == SelectSeq(ups, LAMBDA f : f.st = "sheet")

RECURSIVE concat_rows(_, _)
concat_rows(frames, allcols) ==
    IF frames = << >> THEN << >>
    ELSE LET fr == Head(frames)
         IN  [k \in 1..Len(fr.rows) |->
                [c \in allcols |->
                    IF c \in Range(fr.cols) THEN fr.rows[k][c] ELSE NaN]]
             \o concat_rows(Tail(frames), allcols)

\* pd.concat(merged, ignore_index=True): the union of the columns, a column a
\* frame lacks is missing in its rows.
concat(frames) ==
    LET allcols == UNION {Range(frames[i].cols) : i \in DOMAIN frames}
    IN  [cols |-> allcols, rows |-> concat_rows(frames, allcols)]

\* pd.to_numeric(errors="coerce").fillna(0) on one cell.
to_numeric(c) ==
    CASE c.t = "num"  -> c
      [] c.t = "bool" -> Num(100 * c.n)
      [] c.t = "str"  -> IF c.s \in DOMAIN NumericText THEN Num(NumericText[c.s])
                                                      ELSE Num(0)
      [] c.t = "nan"  -> Num(0)

\* Lines 656-666: merged_df.
merged_df(ups) ==
    LET frames == [i \in DOMAIN readable(ups) |-> read_excel(readable(ups)[i])]
        cat == concat(frames)
    IN  [ cols |-> EVAL_COLUMNS,
          rows |-> [k \in 1..Len(cat.rows) |->
                      [c \in ColSet |->
                          LET v == IF c \in cat.cols THEN cat.rows[k][c] ELSE Str("")
                          IN  IF c \in Range(SCORE_COLS) THEN to_numeric(v) ELSE v]] ]

\* The keys of groupby("candidate_id"): the values of the column that are not
\* missing.  They are kept in the order of their first row (the page sorts the
\* summary again at lines 741-752).
RECURSIVE group_keys(_, _)
group_keys(rows, seen) ==
    IF rows = << >> THEN << >>
    ELSE LET v == Head(rows)["candidate_id"]
         IN  IF v.t = "nan" \/ v \in seen THEN group_keys(Tail(rows), seen)
             ELSE <<v>> \o group_keys(Tail(rows), seen \cup {v})

\* The rows of one group, in the order of merged_df.
group_rows(df, key) == SelectSeq(df.rows, LAMBDA r : PdEq(r["candidate_id"], key))

\* Series.unique(): the values in the order of their first occurrence.
RECURSIVE unique(_, _)
unique(q, seen) ==
    IF q = << >> THEN << >>
    ELSE IF Head(q) \in seen THEN unique(Tail(q), seen)
         ELSE <<Head(q)>> \o unique(Tail(q), seen \cup {Head(q)})

\* A mutant of positive_mean: the mean of all the values.
positive_mean_all(nums) ==
    IF nums = << >> THEN 0 ELSE RoundHalfEven(SumSeq(nums), Len(nums))

\* Lines 710-712: vals = grp[sc][grp[sc] > 0]; round(vals.mean(), 2) or 0.0.
\* The numbers are in hundredths.
positive_mean(nums) ==
    LET vals == SelectSeq(nums, LAMBDA x : x > 0)
    IN  IF vals = << >> THEN 0 ELSE RoundHalfEven(SumSeq(vals), Len(vals))

\* astype(str) on one cell.
astype_str(c) == IF c.t = "nan" THEN "nan" ELSE pre_s(c)

\* A mutant of flag_any: the flag of the first row of the group.
flag_any_first(grp, fc) == astype_str(grp[1][fc]) = "True"

\* Line 720: (grp[fc].astype(str) == "True").any()
flag_any(grp, fc) == \E k \in DOMAIN grp : astype_str(grp[k][fc]) = "True"

\* Lines 704, 737: str.join raises TypeError on an item that is not a str.
join_raises(cells) == \E k \in DOMAIN cells : cells[k].t # "str"

\* Lines 698-738: row_data of one group.
row_data(df, key) ==
    LET grp == group_rows(df, key)
        memos == SelectSeq([k \in DOMAIN grp |-> grp[k]["memo_summary"]],
                           LAMBDA c : c.t # "nan" /\ astype_str(c) \notin {"", "nan"})
    IN  [ cid   |-> key,
          name  |-> grp[1]["name"],
          sid   |-> grp[1]["student_id"],
          cat   |-> grp[1]["category"],
          lvl   |-> grp[1]["level"],
          mark  |-> grp[1]["mark"],
          n     |-> Len(grp),
          by    |-> unique([k \in DOMAIN grp |-> grp[k]["interviewer"]], {}),
          avg   |-> [sc \in Range(SCORE_COLS) |->
                        positive_mean([k \in DOMAIN grp |-> grp[k][sc].n])],
          risk  |-> {fc \in Range(FLAG_COLS) : flag_any(grp, fc)},
          recs  |-> [rv \in RecOptions |->
                        Cardinality({k \in DOMAIN grp :
                                        PdEq(grp[k]["recommendation"], Str(rv))})],
          memo  |-> [k \in DOMAIN memos |-> astype_str(memos[k])] ]

\* A mutant of failed_files: only the first unreadable upload is named.
failed_files_first(ups) ==
    LET bad == {k \in DOMAIN ups : ups[k].st # "sheet"}
    IN  IF bad = {} THEN << >>
        ELSE << CHOOSE k \in bad : \A j \in bad : k <= j >>

\* Lines 646-654: failed_files, by the position of the upload (its f.name).
RECURSIVE failed_from(_, _)
failed_from(ups, k) ==
    IF k > Len(ups) THEN << >>
    ELSE IF ups[k].st # "sheet" THEN <<k>> \o failed_from(ups, k + 1)
         ELSE failed_from(ups, k + 1)

failed_files(ups) == failed_from(ups, 1)

\* Lines 792-796: the detail view takes the summary row whose name equals the
\* selected one; .iloc[0] raises IndexError when no name does, which is so
\* for a missing name.
detail_raises(rows, k) == rows[k].name.t = "nan"

\* Lines 746-751 and 796: cand_row, the first row of the sorted summary that
\* has the selected name.  With the sort widgets as they are first shown the
\* summary is sorted by the overall average, the highest first; rows of one
\* average keep the order of the groups.
header_row(rows, k) ==
    LET same == {i \in DOMAIN rows : PdEq(rows[i].name, rows[k].name)}
        best == {i \in same : \A j \in same :
                    rows[i].avg["score_overall"] >= rows[j].avg["score_overall"]}
    IN  CHOOSE i \in best : \A j \in best : i <= j

\* Line 797: cand_evals = merged_df[merged_df["name"] == selected_cand], by
\* the positions of the rows in merged_df.
RECURSIVE cand_evals(_, _, _)
cand_evals(df, name, j) ==
    IF j > Len(df.rows) THEN << >>
    ELSE IF PdEq(df.rows[j]["name"], name) THEN <<j>> \o cand_evals(df, name, j + 1)
         ELSE cand_evals(df, name, j + 1)

\* Lines 645-882: the merge section for the uploaded workbooks; sel is the
\* candidate of the detail selectbox.  Its status is
\* "error" when no upload was read and "raised" when an exception ends the
\* script run inside the loop over the groups; header is the summary row of
\* the detail header, cards are the rows of the detail cards; export says
\* whether the run reaches the download buttons of lines 850-879.
merge_section(ups, sel) ==
    IF ups = << >> THEN NoMerge
    ELSE IF readable(ups) = << >>
    THEN [ status |-> "error", failed |-> failed_files(ups),
           merged_df |-> empty_evals, summary |-> << >>,
           detail |-> 0, header |-> 0, cards |-> << >>, export |-> FALSE ]
    ELSE LET df == merged_df(ups)
             keys == group_keys(df.rows, {})
             rows == [i \in DOMAIN keys |-> row_data(df, keys[i])]
             k == IF rows = << >> THEN 0 ELSE IF sel \in DOMAIN rows THEN sel ELSE 1
             shown == k # 0 /\ ~detail_raises(rows, k)
         IN  IF \E i \in DOMAIN rows : join_raises(rows[i].by)
             THEN [ status |-> "raised", failed |-> failed_files(ups),
                    merged_df |-> df, summary |-> << >>,
                    detail |-> 0, header |-> 0, cards |-> << >>, export |-> FALSE ]
             ELSE [ status |-> "ok", failed |-> failed_files(ups),
                    merged_df |-> df, summary |-> rows,
                    detail |-> k,
                    header |-> IF shown THEN header_row(rows, k) ELSE 0,
                    cards |-> IF shown THEN cand_evals(df, rows[k].name, 1) ELSE << >>,
                    export |-> (k = 0 \/ ~detail_raises(rows, k)) ]

\* The candidates the detail selectbox offers in the section m.
detail_options(m) == DOMAIN m.summary \cup {1}

\* A workbook is added to the uploader; the script runs.
Upload ==
    \E f \in UploadFiles :
        /\ Len(uploads) < MaxUploads
        /\ uploads' = Append(uploads, f)
        /\ \E m \in {merge_section(uploads', 1)} :
              \E sel \in detail_options(m) :
                  merge' = IF sel = 1 THEN m ELSE merge_section(uploads', sel)
        /\ UNCHANGED <<opsVars, sessVars, toolVars>>

\* A workbook is taken out of the uploader; the script runs.
RemoveUpload ==
    \E k \in DOMAIN uploads :
        /\ uploads' = SubSeq(uploads, 1, k - 1) \o SubSeq(uploads, k + 1, Len(uploads))
        /\ \E m \in {merge_section(uploads', 1)} :
              \E sel \in detail_options(m) :
                  merge' = IF sel = 1 THEN m ELSE merge_section(uploads', sel)
        /\ UNCHANGED <<opsVars, sessVars, toolVars>>

\* Another candidate is picked in the detail selectbox; the script runs.
SelectDetail ==
    \E sel \in DOMAIN merge.summary :
        /\ sel # merge.detail
        /\ merge' = merge_section(uploads, sel)
        /\ UNCHANGED uploads
        /\ UNCHANGED <<opsVars, sessVars, toolVars>>

MergeInit ==
    /\ OpsIdle
    /\ SessIdle
    /\ MergeIdle
    /\ ToolsIdle

MergeNext == Upload \/ RemoveUpload \/ SelectDetail

SpecMerge == MergeInit /\ [][MergeNext]_vars

----------------------------------------------------------------------------
(* SpecScores: the scores of the row a save builds, for every slider setting *)

MaxScore == 5       \* the upper end of the six score sliders

Scores == 0..MaxScore

\* The forms that differ in the six sliders.
ScoreForms ==
    { [FormA EXCEPT !.sr = v[1], !.so = v[2], !.sc = v[3], !.ss = v[4],
                    !.sro = v[5], !.som = v[6]] : v \in [1..6 -> Scores] }

ScoresInit ==
    /\ OpsIdle
    /\ SessIdle
    /\ MergeIdle
    /\ CliIdle
    /\ calc \in { [fn |-> "form", arg |-> f, out |-> << >>] : f \in ScoreForms }

\* Lines 549-577: the save button builds row_dict from the widgets.
BuildRow ==
    /\ calc.fn = "form"
    /\ calc' = [ fn |-> "row_dict", arg |-> calc.arg,
                 out |-> row_dict("Lee", candidates[1], calc.arg, SaveTime) ]
    /\ UNCHANGED <<opsVars, sessVars, mergeVars, disk, cli>>

ScoresNext == BuildRow

SpecScores == ScoresInit /\ [][ScoresNext]_vars

----------------------------------------------------------------------------
(* SpecIds: the student id of a roster row, as a sequence of characters *)

MaxIdLen == 5       \* cap on the length of the raw ids that are enumerated

IdChars == {"2", "0", ".", " ", "\n"}

Whitespace == {" ", "\n"}

\* The raw ids: every text over IdChars up to the cap, and four longer ones.
RawIds ==
    UNION {[1..n -> IdChars] : n \in 0..MaxIdLen}
    \cup { <<"2", "6", "0", "1", ".", "0">>,
           <<"2", "6", "0", "1", ".", "0", " ">>,
           <<"2", "6", "0", "1", ".", "0", ".", "0">>,
           <<" ", "2", "6", "0", "1", ".", "0">> }

\* str.replace(r"\.0$", "", regex=True): "$" matches at the end of the text
\* and before a newline that ends it; the leftmost match is replaced.
sub_dot0(t) ==
    LET n == Len(t)
    IN  IF n >= 3 /\ t[n - 2] = "." /\ t[n - 1] = "0" /\ t[n] = "\n"
        THEN SubSeq(t, 1, n - 3) \o <<"\n">>
        ELSE IF n >= 2 /\ t[n - 1] = "." /\ t[n] = "0"
        THEN SubSeq(t, 1, n - 2)
        ELSE t

\* str.strip()
RECURSIVE lstrip(_)
lstrip(t) == IF t # << >> /\ Head(t) \in Whitespace THEN lstrip(Tail(t)) ELSE t

RECURSIVE rstrip(_)
rstrip(t) ==
    IF t # << >> /\ t[Len(t)] \in Whitespace THEN rstrip(SubSeq(t, 1, Len(t) - 1)) ELSE t

strip(t) == lstrip(rstrip(t))

\* Line 65: astype(str) leaves a text as it is.
normalize_sid(t) == strip(sub_dot0(t))

IdsInit ==
    /\ OpsIdle
    /\ SessIdle
    /\ MergeIdle
    /\ CliIdle
    /\ calc \in { [fn |-> "raw", arg |-> t, out |-> << >>] : t \in RawIds }

\* load_candidates normalizes the id of a roster row.
Normalize ==
    /\ calc.fn = "raw"
    /\ calc' = [fn |-> "normalize", arg |-> calc.arg, out |-> normalize_sid(calc.arg)]
    /\ UNCHANGED <<opsVars, sessVars, mergeVars, disk, cli>>

\* The normalized id is a roster's id again and is normalized once more.
Renormalize ==
    /\ calc.fn = "normalize"
    /\ calc' = [fn |-> "renormalize", arg |-> calc.out, out |-> normalize_sid(calc.out)]
    /\ UNCHANGED <<opsVars, sessVars, mergeVars, disk, cli>>

IdsNext == Normalize \/ Renormalize

SpecIds == IdsInit /\ [][IdsNext]_vars

----------------------------------------------------------------------------
(* SpecCli: merge_results.py *)

MaxInputs == 2      \* cap on the number of items given as --inputs

\* The workbooks of the directory: results of the app, one of an earlier
\* version and one without an Evaluations sheet.
CliFiles == {WbPark, WbChoi, LegacyFile, UnreadableFile}

\* The paths a user puts workbooks at.
InputPaths == {"a.xlsx", "b.xlsx"}

\* The items of --inputs that hold one of "*", "?", "[" (line 30).
GlobPatterns == {"*.xlsx", "[ab].xlsx"}

CliItems == InputPaths \cup GlobPatterns

\* glob.glob(it): the existing paths the pattern matches.
glob(d, it) ==
    { p \in Range(CliPaths) :
        /\ d[p].st # "absent"
        /\ it = "[ab].xlsx" => p \in InputPaths }

\* Lines 27-34: sorted(set(out)); a literal item is kept whether or not the
\* path exists.
expand_globs(d, items) ==
    LET out == UNION { IF items[i] \in GlobPatterns THEN glob(d, items[i])
                                                    ELSE {items[i]} : i \in DOMAIN items }
    IN  SelectSeq(CliPaths, LAMBDA p : p \in out)

\* Line 46: pd.read_excel(pth, sheet_name="Evaluations") raises for a path
\* that does not exist, for a file that is no workbook and for a workbook
\* without that sheet, which is so for the output of an earlier run.
cli_reads(d, p) == d[p].st = "sheet"

\* Line 47: df["source_file"] = os.path.basename(pth); the paths of the model
\* have no directory part.
with_source(df, p) ==
    [ cols |-> Append(df.cols, "source_file"),
      rows |-> [k \in DOMAIN df.rows |->
                  [c \in Range(df.cols) \cup {"source_file"} |->
                      IF c = "source_file" THEN Str(p) ELSE df.rows[k][c]]] ]

\* Lines 57-59: a sort column no input has is added as "".
with_sort_cols(df) ==
    LET by == {"timestamp", "candidate_id", "interviewer"}
    IN  [ cols |-> df.cols \cup by,
          rows |-> [k \in DOMAIN df.rows |->
                      [c \in df.cols \cup by |->
                          IF c \in df.cols THEN df.rows[k][c] ELSE Str("")]] ]

\* The texts of the sort columns in the order of Python's str comparison.
TextOrder == <<"", "2601_Kim", "Choi", "Lee", "Park", "t1", "t2">>

\* The place of a cell in a sorted column: numbers before texts (pandas sorts
\* a column of both so), a missing value last (na_position="last").
cell_rank(c) ==
    CASE c.t = "num"  -> <<0, c.n>>
      [] c.t = "bool" -> <<0, 100 * c.n>>
      [] c.t = "str"  -> <<1, CHOOSE i \in DOMAIN TextOrder : TextOrder[i] = c.s>>
      [] c.t = "nan"  -> <<2, 0>>

cell_lt(a, b) ==
    \/ cell_rank(a)[1] < cell_rank(b)[1]
    \/ cell_rank(a)[1] = cell_rank(b)[1] /\ cell_rank(a)[2] < cell_rank(b)[2]

\* Line 60: the order of by=["candidate_id", "interviewer", "timestamp"].
row_lt(r1, r2) ==
    \/ cell_lt(r1["candidate_id"], r2["candidate_id"])
    \/ /\ cell_rank(r1["candidate_id"]) = cell_rank(r2["candidate_id"])
       /\ \/ cell_lt(r1["interviewer"], r2["interviewer"])
          \/ /\ cell_rank(r1["interviewer"]) = cell_rank(r2["interviewer"])
             /\ cell_lt(r1["timestamp"], r2["timestamp"])

\* Line 60: sort_values(kind="stable"): a row goes behind the rows that are
\* not greater than it.
RECURSIVE sort_values(_)
sort_values(rows) ==
    IF rows = << >> THEN << >>
    ELSE LET front == sort_values(SubSeq(rows, 1, Len(rows) - 1))
             r == rows[Len(rows)]
             n == Cardinality({k \in DOMAIN front : ~row_lt(r, front[k])})
         IN  SubSeq(front, 1, n) \o <<r>> \o SubSeq(front, n + 1, Len(front))

\* A mutant of cli_main: the check of line 52 is left out.
cli_main_unchecked(d, inputs) ==
    LET paths == expand_globs(d, inputs)
    IN  [ ran |-> TRUE, inputs |-> inputs, paths |-> paths,
          read |-> SelectSeq(paths, LAMBDA p : cli_reads(d, p)),
          skipped |-> SelectSeq(paths, LAMBDA p : ~cli_reads(d, p)),
          exit |-> 0, writes |-> TRUE,
          out_df |-> [cols |-> {}, rows |-> << >>], meta |-> paths,
          printed_files |-> Len(paths), printed_rows |-> 0 ]

\* Lines 37-70: main().  exit is the status of the process: SystemExit with a
\* message ends it with 1.
cli_main(d, inputs) ==
    LET paths == expand_globs(d, inputs)
        read == SelectSeq(paths, LAMBDA p : cli_reads(d, p))
        skipped == SelectSeq(paths, LAMBDA p : ~cli_reads(d, p))
        merged == [i \in DOMAIN read |-> with_source(read_excel(d[read[i]]), read[i])]
        cat == with_sort_cols(concat(merged))
        out_df == [cols |-> cat.cols, rows |-> sort_values(cat.rows)]
        failed == [ ran |-> TRUE, inputs |-> inputs, paths |-> paths,
                    read |-> read, skipped |-> skipped,
                    exit |-> 1, writes |-> FALSE,
                    out_df |-> [cols |-> {}, rows |-> << >>], meta |-> << >>,
                    printed_files |-> 0, printed_rows |-> 0 ]
    IN  IF paths = << >> THEN failed
        ELSE IF merged = << >> THEN failed
        ELSE [ ran |-> TRUE, inputs |-> inputs, paths |-> paths,
               read |-> read, skipped |-> skipped,
               exit |-> 0, writes |-> TRUE,
               out_df |-> out_df, meta |-> paths,
               printed_files |-> Len(paths), printed_rows |-> Len(out_df.rows) ]

\* Lines 62-68: the workbook written at --out, with the sheets
\* MergedEvaluations and Meta and no sheet Evaluations.
merged_workbook(r) ==
    [ st |-> "merged", cols |-> r.out_df.cols,
      rows |-> [k \in DOMAIN r.out_df.rows |->
                  [c \in DOMAIN r.out_df.rows[k] |-> to_excel_cell(r.out_df.rows[k][c])]],
      meta |-> r.meta ]

\* A workbook is put at one of the input paths.
CliPut ==
    \E p \in InputPaths, f \in CliFiles :
        /\ disk[p] # f
        /\ disk' = [disk EXCEPT ![p] = f]
        /\ cli' = NoCli
        /\ UNCHANGED <<opsVars, sessVars, mergeVars, calc>>

\* A file of the directory is removed.
CliRemove ==
    \E p \in Range(CliPaths) :
        /\ disk[p].st # "absent"
        /\ disk' = [disk EXCEPT ![p] = AbsentFile]
        /\ cli' = NoCli
        /\ UNCHANGED <<opsVars, sessVars, mergeVars, calc>>

\* python merge_results.py --inputs ... --out merged.xlsx
CliMain ==
    \E n \in 1..MaxInputs :
        \E inputs \in [1..n -> CliItems] :
            \E r \in {cli_main(disk, inputs)} :
                /\ cli' = r
                /\ disk' = IF r.writes THEN [disk EXCEPT ![OutPath] = merged_workbook(r)]
                                       ELSE disk
                /\ UNCHANGED <<opsVars, sessVars, mergeVars, calc>>

CliInit ==
    /\ OpsIdle
    /\ SessIdle
    /\ MergeIdle
    /\ ToolsIdle

CliNext == CliPut \/ CliRemove \/ CliMain

SpecCli == CliInit /\ [][CliNext]_vars

----------------------------------------------------------------------------
(* Claims about upsert_eval and delete *)

KeyOf(row) == <<row["interviewer"], row["candidate_id"]>>

OpKey(op) == <<Str(op.interviewer), Str(op.cid)>>

RowsWithKey(t, key) == {k \in 1..Len(t.rows) : KeyOf(t.rows[k]) = key}

\* C1: starting from the empty table, after any sequence of upserts and
\* deletes, no two rows of the table carry the same (interviewer,
\* candidate_id) pair.
C1_NoDuplicateKey ==
    \A a, b \in 1..Len(tbl.rows) :
        a # b => KeyOf(tbl.rows[a]) # KeyOf(tbl.rows[b])

\* An upsert of a key the table already held, in a table of several rows,
\* right after a delete.
C1_Witness ==
    /\ lastOp.kind = "upsert"
    /\ prevOp.kind = "delete"
    /\ Len(tbl.rows) >= 3
    /\ RowsWithKey(prevTbl, OpKey(lastOp)) # {}

\* C2: after an upsert (in particular after a run of upserts of one key) the
\* table holds exactly one row of that key, and that row equals, in every
\* field, the row of the last upsert.
C2_LastUpsertWins ==
    lastOp.kind = "upsert" =>
        /\ Cardinality(RowsWithKey(tbl, OpKey(lastOp))) = 1
        /\ \A k \in RowsWithKey(tbl, OpKey(lastOp)) :
              \A c \in ColSet : tbl.rows[k][c] = op_row(lastOp)[c]

\* Two upserts of one key in a row, the second with other values.
C2_Witness ==
    /\ lastOp.kind = "upsert"
    /\ prevOp.kind = "upsert"
    /\ OpKey(lastOp) = OpKey(prevOp)
    /\ lastOp.v # prevOp.v
    /\ Len(tbl.rows) >= 2

\* C3: delete(k) leaves no row of key k and leaves the other rows as they
\* were, in the same order; with no row of key k the table is unchanged; and
\* an upsert of key k right after delete(k) leaves exactly one row of key k.
C3_Delete ==
    /\ lastOp.kind = "delete" =>
          /\ RowsWithKey(tbl, OpKey(lastOp)) = {}
          /\ tbl.rows = SelectSeq(prevTbl.rows, LAMBDA r : KeyOf(r) # OpKey(lastOp))
          /\ tbl.cols = prevTbl.cols
          /\ (RowsWithKey(prevTbl, OpKey(lastOp)) = {} => tbl = prevTbl)
    /\ (lastOp.kind = "upsert" /\ prevOp.kind = "delete" /\ OpKey(lastOp) = OpKey(prevOp)) =>
          Cardinality(RowsWithKey(tbl, OpKey(lastOp))) = 1

\* A delete that removed two rows of one key from between other rows, then an
\* upsert of that key.
C3_Witness ==
    /\ lastOp.kind = "upsert"
    /\ prevOp.kind = "delete"
    /\ OpKey(lastOp) = OpKey(prevOp)
    /\ Len(tbl.rows) = 2
    /\ Len(prevTbl.rows) = 1

\* A delete of a key the table does not hold.
C3_WitnessNoop ==
    /\ lastOp.kind = "delete"
    /\ RowsWithKey(prevTbl, OpKey(lastOp)) = {}
    /\ Len(tbl.rows) >= 2

----------------------------------------------------------------------------
(* Claims about the workbook and the script runs *)

\* The text a cell shows; a missing value shows as the empty text.
Printed(c) == pre_s(c)

PrintedKey(row) == <<Printed(row["interviewer"]), Printed(row["candidate_id"])>>

\* The key of the candidate selected in session s.
SelectedKey(x) == <<interviewer, candidates[x.sel].cid>>

\* C4: right after a save, loading the workbook gives back the rows that were
\* written, in their order and with fields that show the same text, and an
\* upsert of the key just saved into the loaded table matches the saved row:
\* it does not lengthen the table.
C4_RoundTrip ==
    step.kind = "save" =>
        LET back == load_results(file).df
            x == sess[step.s]
            row == row_dict(interviewer, candidates[x.sel], x.form.w, SaveTime)
        IN  /\ Len(back.rows) = Len(file.rows)
            /\ \A k \in DOMAIN file.rows : \A c \in ColSet :
                  Printed(back.rows[k][c]) = Printed(file.rows[k][c])
            /\ Len(upsert_eval(back, row).rows) = Len(back.rows)

\* C5: load_results raises nothing; for a path with no file and for a file
\* whose Evaluations sheet cannot be read it returns the table of the 25 fixed
\* columns and no row; for any other file the returned table has exactly the
\* fixed columns in the fixed order.
C5_LoadTotal ==
    LET got == load_results(file)
    IN  /\ ~got.raised
        /\ got.df.cols = EVAL_COLUMNS
        /\ Len(got.df.cols) = 25
        /\ \A k \in DOMAIN got.df.rows : DOMAIN got.df.rows[k] = ColSet
        /\ file.st \in {"absent", "unreadable"} => got.df.rows = << >>

\* A script run has loaded a file whose sheet cannot be read and has drawn
\* the page from the empty table.
C5_Witness ==
    /\ file.st = "unreadable"
    /\ step.kind = "render"
    /\ sess[step.s].evals = [cols |-> EVAL_COLUMNS, rows |-> << >>]

\* C6: the save of a session leaves in the file, in full, the table of that
\* session: the rows it loaded, with its own row upserted.  A row the file
\* holds at the write whose key the session neither loaded nor saves (a row
\* another session saved after this one's load) is not in the file after it.
C6_LastWriterWins ==
    [][\A s \in Sessions :
          (sess[s].pc = "loaded" /\ sess'[s].pc = "idle") =>
             LET snap == sess[s].evals
                 own == SelectedKey(sess[s])
                 kept == SelectSeq(to_excel(snap).rows, LAMBDA r : PrintedKey(r) # own)
             IN  /\ step'.kind = "save"
                 /\ step'.s = s
                 /\ file' = to_excel(sess'[s].evals)
                 /\ SelectSeq(file'.rows, LAMBDA r : PrintedKey(r) # own) = kept
                 /\ \E k \in DOMAIN file'.rows : PrintedKey(file'.rows[k]) = own
                 /\ Len(file'.rows) <= Len(snap.rows) + 1
                 /\ \A k \in DOMAIN file.rows :
                       (/\ PrintedKey(file.rows[k]) # own
                        /\ \A j \in DOMAIN snap.rows :
                              PrintedKey(snap.rows[j]) # PrintedKey(file.rows[k]))
                       => \A j \in DOMAIN file'.rows :
                              PrintedKey(file'.rows[j]) # PrintedKey(file.rows[k])
      ]_vars

\* Session s2 saved last, from a table loaded before s1's save: the file is
\* s2's table and the row s1 saved for the first candidate is gone.
C6_Witness ==
    /\ step.kind = "save"
    /\ step.s = "s2"
    /\ file = to_excel(sess["s2"].evals)
    /\ sess["s1"].pc = "idle"
    /\ \E k \in DOMAIN sess["s1"].evals.rows :
          PrintedKey(sess["s1"].evals.rows[k]) = <<interviewer, candidates[1].cid>>
    /\ \A k \in DOMAIN file.rows :
          PrintedKey(file.rows[k]) # <<interviewer, candidates[1].cid>>

\* C7: a step changes the file only if it is the step of a pressed save (the
\* rows of the other keys stay as loaded, at most one row is added) or of the
\* confirmation of a pending delete (the rows of the selected key go, the
\* others stay); every other step leaves the file as it is.
C7_FileFrame ==
    [][file' # file =>
          LET x == sess'["s1"]
              own == SelectedKey(x)
              loaded == to_excel(load_results(file).df).rows
              others == SelectSeq(loaded, LAMBDA r : PrintedKey(r) # own)
          IN  \/ /\ step'.kind = "save"
                 /\ SelectSeq(file'.rows, LAMBDA r : PrintedKey(r) # own) = others
                 /\ Len(file'.rows) <= Len(loaded) + 1
              \/ /\ step'.kind = "delete_confirm"
                 /\ sess["s1"].confirm[x.sel]
                 /\ file'.rows = SelectSeq(loaded, LAMBDA r :
                        ~(/\ r["interviewer"] = Str(interviewer)
                          /\ r["candidate_id"] = Str(candidates[x.sel].cid)))
      ]_vars

\* The timer reruns the script while a delete is pending, over a workbook the
\* session has saved to.
C7_Witness ==
    /\ step.kind = "timer_rerun"
    /\ file.st = "sheet"
    /\ file.cols = EVAL_COLUMNS
    /\ Len(file.rows) >= 1
    /\ sess["s1"].confirm[sess["s1"].sel]
    /\ sess["s1"].running[sess["s1"].sel]

----------------------------------------------------------------------------
(* Claims about the merge summary *)

\* The rows of the combined table that carry the candidate id of a group.
RowsOf(cid) ==
    {k \in DOMAIN merge.merged_df.rows :
        PdEq(merge.merged_df.rows[k]["candidate_id"], cid)}

RECURSIVE SumCells(_, _)
SumCells(S, sc) ==
    IF S = {} THEN 0
    ELSE LET k == CHOOSE j \in S : TRUE
         IN  merge.merged_df.rows[k][sc].n + SumCells(S \ {k}, sc)

Abs(n) == IF n < 0 THEN -n ELSE n

\* C8: for every group of the summary and each of the six score fields, the
\* reported average is the mean, to two decimals, of the strictly positive
\* values of the field in the rows of the group, and 0.0 when there is none;
\* two rows with category scores all 5 and all 3 give 4.0 in every category.
C8_PositiveMean ==
    merge.status = "ok" =>
        \A i \in DOMAIN merge.summary : \A sc \in Range(SCORE_COLS) :
            LET g == merge.summary[i]
                P == {k \in RowsOf(g.cid) : merge.merged_df.rows[k][sc].n > 0}
                vals == {merge.merged_df.rows[k][sc].n : k \in RowsOf(g.cid)}
            IN  /\ P = {} => g.avg[sc] = 0
                /\ P # {} =>
                      2 * Abs(g.avg[sc] * Cardinality(P) - SumCells(P, sc)) <= Cardinality(P)
                /\ (Cardinality(RowsOf(g.cid)) = 2 /\ vals = {500, 300}) => g.avg[sc] = 400

\* A group of three rows whose self-driven scores are 5, 3 and 0: the
\* reported average is 4.0.
C8_Witness ==
    /\ merge.status = "ok"
    /\ \E i \in DOMAIN merge.summary :
          LET g == merge.summary[i]
          IN  /\ g.n = 3
              /\ {merge.merged_df.rows[k]["score_self_driven"].n : k \in RowsOf(g.cid)}
                    = {500, 300, 0}
              /\ g.avg["score_self_driven"] = 400

\* A flag cell that is set: the bool True, or its text.
FlagSet(c) == c = Bool(TRUE) \/ c = Str("True")

\* C9: the summary reports a risk flag for a candidate exactly when some row
\* of that candidate in the combined table has the flag set.
C9_RiskUnion ==
    merge.status = "ok" =>
        \A i \in DOMAIN merge.summary : \A fc \in Range(FLAG_COLS) :
            fc \in merge.summary[i].risk
                <=> \E k \in RowsOf(merge.summary[i].cid) :
                        FlagSet(merge.merged_df.rows[k][fc])

\* One interviewer left schedule_risk unset for a candidate, a later one set
\* it: the flag is reported.
C9_Witness ==
    /\ merge.status = "ok"
    /\ \E i \in DOMAIN merge.summary :
          LET g == merge.summary[i]
              first == CHOOSE k \in RowsOf(g.cid) : \A j \in RowsOf(g.cid) : k <= j
          IN  /\ g.n >= 2
              /\ ~FlagSet(merge.merged_df.rows[first]["flag_schedule_risk"])
              /\ \E k \in RowsOf(g.cid) :
                    FlagSet(merge.merged_df.rows[k]["flag_schedule_risk"])
              /\ "flag_schedule_risk" \in g.risk

\* C10: the summary has one row for each distinct candidate_id value of the
\* combined rows, a missing candidate_id counting as a value, and no other row.
C10_OneRowPerCandidate ==
    merge.status = "ok" =>
        LET ids == {merge.merged_df.rows[k]["candidate_id"] :
                        k \in DOMAIN merge.merged_df.rows}
        IN  /\ {merge.summary[i].cid : i \in DOMAIN merge.summary} = ids
            /\ Len(merge.summary) = Cardinality(ids)

\* The uploads whose sheet is readable, by position.
GoodUploads == {k \in DOMAIN uploads : uploads[k].st = "sheet"}

\* The number of rows the readable uploads before position k hold.
RECURSIVE RowsBefore(_)
RowsBefore(k) ==
    IF k <= 1 THEN 0
    ELSE RowsBefore(k - 1)
         + (IF k - 1 \in GoodUploads THEN Len(uploads[k - 1].rows) ELSE 0)

\* C11: with uploads of which none is readable the merge section reports an
\* error and shows no summary and no export; with a readable one, the warning
\* names exactly the unreadable uploads, and the combined table holds the rows
\* of the readable uploads, each once, in upload order.
C11_MergeFailures ==
    uploads # << >> =>
        /\ GoodUploads = {} =>
              /\ merge.status = "error"
              /\ merge.summary = << >>
              /\ merge.merged_df.rows = << >>
              /\ ~merge.export
        /\ GoodUploads # {} =>
              /\ merge.status # "error"
              /\ Range(merge.failed) = DOMAIN uploads \ GoodUploads
              /\ Len(merge.failed) = Cardinality(DOMAIN uploads \ GoodUploads)
              /\ Len(merge.merged_df.rows) = RowsBefore(Len(uploads) + 1)
              /\ \A k \in GoodUploads : \A i \in 1..Len(uploads[k].rows) :
                    LET src == read_excel(uploads[k])
                    IN  \A c \in (Range(src.cols) \cap ColSet) \ Range(SCORE_COLS) :
                           merge.merged_df.rows[RowsBefore(k) + i][c] = src.rows[i][c]

\* Two unreadable uploads around a readable one: both are named, the summary
\* is built from the readable one.
C11_Witness ==
    /\ Len(uploads) = 3
    /\ GoodUploads = {2}
    /\ merge.status = "ok"
    /\ merge.failed = <<1, 3>>
    /\ Len(merge.merged_df.rows) = 2

----------------------------------------------------------------------------
(* Claims about merge_results.py *)

\* The paths the items of a run resolve to, and those of them that hold a
\* workbook with an Evaluations sheet.
Resolved(d, inputs) == Range(expand_globs(d, inputs))

ReadableOf(d, inputs) == {p \in Resolved(d, inputs) : d[p].st = "sheet"}

\* C12: a run of the merge CLI whose inputs resolve to no path, or to no path
\* with a readable Evaluations sheet, exits with a non-zero status and leaves
\* the output path as it was; a run that writes the output file has read at
\* least one input.
C12_NoOutputWithoutInput ==
    [][ cli'.ran =>
          /\ ReadableOf(disk, cli'.inputs) = {} =>
                /\ cli'.exit # 0
                /\ disk'[OutPath] = disk[OutPath]
          /\ disk'[OutPath] # disk[OutPath] =>
                /\ ReadableOf(disk, cli'.inputs) # {}
                /\ cli'.read # << >> ]_vars

\* A run that resolved two paths, read none and left no output file.
C12_Witness ==
    /\ cli.ran
    /\ cli.exit = 1
    /\ Len(cli.paths) = 2
    /\ cli.read = << >>
    /\ disk["a.xlsx"].st = "unreadable"
    /\ disk[OutPath].st = "absent"

\* The rows of the merged table that came from path p.
RowsFrom(p) ==
    {k \in DOMAIN cli.out_df.rows : cli.out_df.rows[k]["source_file"] = Str(p)}

\* C20: after a successful run of the merge CLI the printed file count is the
\* number of inputs that were read and merged, a skipped file not counted, and
\* every path that was read contributes its rows once.
C20_PrintedFileCount ==
    (cli.ran /\ cli.exit = 0) =>
        /\ cli.printed_files = Cardinality({p \in Range(CliPaths) : RowsFrom(p) # {}})
        /\ cli.printed_files = Len(cli.read)
        /\ \A p \in Range(CliPaths) :
              Cardinality(RowsFrom(p)) =
                  IF p \in Range(cli.read) THEN Len(disk[p].rows) ELSE 0

----------------------------------------------------------------------------
(* Claims about the start of a script run *)

\* C13: in a script run with a roster that has no name column (and an
\* interviewer name, so that the roster is loaded) the load fails and the run
\* stops there: the output directory is not created, the run holds no loaded
\* table and the result file is left as it was.
C13_RosterWithoutName ==
    [][ (interviewer # "" /\ "name" \notin Range(roster.cols)) =>
          /\ step'.kind = "abort"
          /\ outdir' = outdir
          /\ file' = file
          /\ \A s \in Sessions : sess'[s].evals = empty_evals ]_vars

\* A run with such a roster has ended, and there is no output directory.
C13_Witness ==
    /\ interviewer # ""
    /\ "name" \notin Range(roster.cols)
    /\ step.kind = "abort"
    /\ ~outdir

----------------------------------------------------------------------------
(* Claims about the frame of upsert_eval *)

\* The first position of a non-empty set of positions.
MinOf(S) == CHOOSE k \in S : \A j \in S : k <= j

\* C14: an upsert of a row of key k, on any table (one with several rows of
\* key k included): with a row of key k in the table the length is unchanged,
\* the first such row becomes the given row and every other row stays at its
\* position as it was; with none the table is the old one with the row
\* appended; on the empty table the result holds the row alone.
C14_UpsertFrame ==
    lastOp.kind = "upsert" =>
        LET row == op_row(lastOp)
            hit == RowsWithKey(prevTbl, OpKey(lastOp))
        IN  /\ hit # {} =>
                  /\ Len(tbl.rows) = Len(prevTbl.rows)
                  /\ tbl.rows[MinOf(hit)] = row
                  /\ \A j \in DOMAIN prevTbl.rows :
                        j # MinOf(hit) => tbl.rows[j] = prevTbl.rows[j]
            /\ hit = {} => tbl.rows = Append(prevTbl.rows, row)
            /\ prevTbl.rows = << >> => tbl.rows = <<row>>

\* An upsert of a key of which the table held two rows, with another row
\* before the first of them, has changed the table.
C14_Witness ==
    /\ lastOp.kind = "upsert"
    /\ Cardinality(RowsWithKey(prevTbl, OpKey(lastOp))) = 2
    /\ tbl # prevTbl
    /\ Len(prevTbl.rows) = 3

----------------------------------------------------------------------------
(* Claims about the stored scores *)

\* The five category sliders of a form.
CategoryScores(f) == <<f.sr, f.so, f.sc, f.ss, f.sro>>

\* v, in hundredths, is the quotient num / den rounded to two decimals.
IsRounded(v, num, den) == 2 * Abs(v * den - 100 * num) <= den

\* C15: in the row a save builds, the overall score is the manual slider when
\* that is above 0; otherwise it is the mean, to two decimals, of the category
\* sliders that are above 0, and 0.0 when none is.  Sliders 0, 0, 3, 4, 5 with
\* manual 0 give 4.0.  Every stored score lies in 0..5.
C15_StoredOverall ==
    calc.fn = "row_dict" =>
        LET f == calc.arg
            cs == CategoryScores(f)
            pos == {k \in DOMAIN cs : cs[k] > 0}
            sum == f.sr + f.so + f.sc + f.ss + f.sro   \* the zeros add nothing
            overall == calc.out["score_overall"]
        IN  /\ overall.t = "num"
            /\ f.som > 0 => overall.n = 100 * f.som
            /\ (f.som = 0 /\ pos = {}) => overall.n = 0
            /\ (f.som = 0 /\ pos # {}) => IsRounded(overall.n, sum, Cardinality(pos))
            /\ (cs = <<0, 0, 3, 4, 5>> /\ f.som = 0) => overall.n = 400
            /\ \A c \in Range(SCORE_COLS) :
                  /\ calc.out[c].t = "num"
                  /\ calc.out[c].n >= 0
                  /\ calc.out[c].n <= 100 * MaxScore

\* The row of the sliders 0, 0, 3, 4, 5 with manual 0 has been built.
C15_Witness ==
    /\ calc.fn = "row_dict"
    /\ CategoryScores(calc.arg) = <<0, 0, 3, 4, 5>>
    /\ calc.arg.som = 0
    /\ calc.out["score_overall"] = Num(400)

----------------------------------------------------------------------------
(* Claims about the normalized student id *)

EndsWithDot0(t) == Len(t) >= 2 /\ t[Len(t) - 1] = "." /\ t[Len(t)] = "0"

\* C16: the normalized student id has no trailing ".0" and no whitespace at
\* either end, and normalizing it again returns it unchanged.
C16_NormalizedId ==
    /\ calc.fn \in {"normalize", "renormalize"} =>
          /\ ~EndsWithDot0(calc.out)
          /\ calc.out # << >> =>
                (Head(calc.out) \notin Whitespace /\ calc.out[Len(calc.out)] \notin Whitespace)
    /\ calc.fn = "renormalize" => calc.out = calc.arg

----------------------------------------------------------------------------
(* Claims about the save button *)

\* C17: a script run in which the save button was pressed, and which the
\* stops of lines 287-321 do not end, executes the upsert and the save,
\* whatever the timer: it ends in the save handler and the file holds the
\* table of the session.
C17_SavePressedIsSaved ==
    (step.save_pressed /\ step.kind \notin {"abort", "stop"}) =>
        /\ step.kind = "save"
        /\ file = save_results(sess[step.s].evals)

\* The rows of the file that show the key of the candidate selected in x.
StoredFor(x) == {k \in DOMAIN file.rows : PrintedKey(file.rows[k]) = SelectedKey(x)}

\* C18: a save from a form that shows the values prefilled from the stored row
\* of the selected key, none of them changed, with the file as the session
\* loaded it, leaves that row as it was in every field but the timestamp.
C18_ResaveIdempotent ==
    [][ \A s \in Sessions :
          LET x == sess[s]
          IN  ( /\ x.pc = "loaded"
                /\ sess'[s].pc = "idle"
                /\ load_results(file).df = x.evals
                /\ StoredFor(x) # {}
                /\ rendered(x).w = prefill(x.evals, interviewer, candidates[x.sel].cid) )
              => \A k \in StoredFor(x) :
                    /\ k \in DOMAIN file'.rows
                    /\ \A c \in ColSet \ {"timestamp"} :
                          Printed(file'.rows[k][c]) = Printed(file.rows[k][c]) ]_vars

\* C19: after a save, where the next run shows a stored evaluation for the
\* selected key, the row it previews and prefills from shows the values just
\* saved: it is the row the save overwrote.
C19_PreviewIsSavedRow ==
    step.kind = "save" =>
        LET x == sess[step.s]
            got == load_results(file).df
            mask == key_mask(got, Str(interviewer), Str(candidates[x.sel].cid))
            saved == row_dict(interviewer, candidates[x.sel], x.form.w, SaveTime)
        IN  mask_any(mask) =>
                /\ last_match(mask) = first_match(mask)
                /\ \A c \in ColSet :
                      Printed(got.rows[last_match(mask)][c]) = Printed(saved[c])

----------------------------------------------------------------------------
(* Claims about the detail view of the merge section *)

\* C21: where the merge section shows the detail view of the candidate picked
\* from the summary, its cards are exactly the combined rows that carry the
\* candidate id of the picked summary row, and its header is that row.
C21_DetailOfCandidate ==
    (merge.status = "ok" /\ merge.header # 0) =>
        /\ {j : j \in Range(merge.cards)} = RowsOf(merge.summary[merge.detail].cid)
        /\ merge.header = merge.detail
====
